---- MODULE Spec2Model ----
(***************************************************************************)
(* rpc-perf run orchestration (src/src/main.rs): main, do_warmup and       *)
(* launch_clients, with the client worker threads they spawn.              *)
(*                                                                         *)
(* The main thread is one sequential process whose position is pc; each    *)
(* spawned worker thread is a process of its own whose position is         *)
(* worker[phase][i].  Metrics, the two AtomicBool stop flags and the clock *)
(* are the shared state.                                                   *)
(***************************************************************************)
EXTENDS Integers, Sequences, FiniteSets

\* ---------------------------------------------------------------- bounds
MaxClients  == 2    \* config.clients() ranges over 0..MaxClients
MaxWarmClients == 1 \* largest client count explored together with a warmup
MaxPolls    == 4    \* warmup poll steps explored
MaxCount    == 2    \* responses recorded into ResponsesHit + ResponsesMiss
MaxTime     == 4    \* clock ticks explored after line 109
MaxWindows  == 2    \* largest configured window limit
MaxInterval == 2    \* largest configured interval
MaxSleep    == 2    \* longest time one sleep of the measurement loop takes
MaxLimit    == 2    \* largest configured rate limit

\* Option::None of an Option<usize> / Option<f64> configuration value.
None == -1

\* warm >= 3 (line 178)
WarmThreshold == 3

\* The warmup target is an f64 in 0.0..=1.0; the model takes the dyadic
\* targets 0.0, 0.5 and 1.0, written as a number of halves, for which the
\* f64 comparison of line 172 agrees with the exact one.
Targets == {None, 0, 1, 2}

Phases   == {"warmup", "steady"}
Slots    == 0 .. (MaxClients - 1)
Running  == {"load", "loaded", "run"}
Kinds    == {"request", "connect", "close"}

\* Option<Arc<Ratelimiter>>: None is the empty tuple, Some the tuple
\* <<capacity, quantum, rate>> of the arguments of Ratelimiter::new.
NoLimiter == <<>>
NoLimiters == [k \in Kinds |-> NoLimiter]

VARIABLES
    config,     \* the immutable Config: raw option values
    pc,         \* position of the main thread
    li,         \* loop index i of launch_clients
    control,    \* the AtomicBool of each phase: "none" (not created), "run", "stop"
    metrics,    \* Metrics counters Window, ResponsesHit, ResponsesMiss
    warm,       \* do_warmup: local warm
    hit,        \* do_warmup: local hit (value read at line 167)
    miss,       \* do_warmup: local miss (value read at line 168)
    worker,     \* worker[p][i]: position of thread client<i> of phase p
    ratelimiters, \* the three limiters of the ClientConfig of each phase
    wired,      \* wired[p][i]: the limiters passed to Client::new for client<i>
    now,        \* the clock, in ticks since line 109
    next,       \* main: local next
    hist,       \* history: for each poll step, whether hitrate >= target held
    attempted,  \* history: indices passed to spawn by each launch_clients call
    spawnErrs,  \* history: number of failed spawns of each launch_clients call
    lateRuns,   \* history: client.run calls begun after the phase's flag was stop
    launches,   \* history: launch_clients calls, in order
    zeroes,     \* history: number of metrics.zero() calls
    recorded,   \* history: responses recorded since the last metrics.zero() call
    reports,    \* history: the Window stat at each stats_stdout.print() call
    crossings,  \* history: boundary crossings of the measurement loop
    saved       \* history: number of metrics.save_waterfall() calls

vars == <<config, pc, li, control, metrics, warm, hit, miss, worker,
          ratelimiters, wired,
          now, next, hist, attempted, spawnErrs, lateRuns, launches, zeroes, recorded,
          reports,
          crossings, saved>>

warmVars   == <<warm, hit, miss, hist>>
loopVars   == <<now, next, reports, crossings, saved>>
launchVars == <<li, attempted, spawnErrs, launches>>

\* ------------------------------------------------------- configuration
\* config.windows(): Option<usize>.  The accessor lives in config.rs; a window
\* count of zero or unset means "no limit".
ConfigWindows(raw) == IF raw = 0 THEN None ELSE raw

\* config.request_ratelimit(), config.connect_ratelimit(), config.close_rate():
\* Option<usize>.  The accessors live in config.rs; a limit of zero or unset
\* means "no limiter".
ConfigLimit(raw) == IF raw = 0 THEN None ELSE raw

\* config.warmup_hitrate(): Option<f64>
WarmupHitrate(raw) == raw

AllConfigs ==
    [ target    : Targets,
      windows   : None .. MaxWindows,
      clients   : 0 .. MaxClients,
      interval  : 1 .. MaxInterval,
      waterfall : BOOLEAN,
      request   : None .. MaxLimit,
      connect   : None .. MaxLimit,
      close     : None .. MaxLimit ]

Limited(c) == \E k \in Kinds : c[k] # None

\* The configurations explored.  Runs without a warmup target and without rate
\* limits take every window limit and client count, and with at most one
\* client every interval and either waterfall option.  Runs with a warmup
\* target take up to MaxWarmClients clients, a window limit of 1, an interval
\* of 1 and no waterfall path, with every target for at most one client and
\* the target 0.5 for more.  Runs with rate limits take every combination of
\* the three limits, at most one client, a window limit of 1, an interval of 1
\* and no waterfall path, without a warmup or, for limits that are unset or 1,
\* with the warmup target 0.0.
Configs ==
    { c \in AllConfigs :
        /\ c.clients > 1 =>
              /\ c.interval = 1
              /\ ~c.waterfall
        /\ c.target # None =>
              /\ c.clients <= MaxWarmClients
              /\ c.clients > 1 => c.target = 1
              /\ c.windows = 1
              /\ c.interval = 1
              /\ ~c.waterfall
        /\ Limited(c) =>
              /\ c.clients <= 1
              /\ c.windows = 1
              /\ c.interval = 1
              /\ ~c.waterfall
              /\ c.target \in {None, 0}
              /\ c.target # None => \A k \in Kinds : c[k] \in {None, 1} }

ZeroMetrics == [Window |-> 0, ResponsesHit |-> 0, ResponsesMiss |-> 0]

\* The configurations explored under fair scheduling: no rate limits, an
\* interval of 1, no waterfall path, a window limit that is unset or 1, no
\* warmup or the warmup target 0.0, at most one client in each pool.
FairConfigs ==
    { c \in AllConfigs :
        /\ ~Limited(c)
        /\ c.interval = 1
        /\ ~c.waterfall
        /\ c.windows \in {None, 1}
        /\ c.target \in {None, 0}
        /\ c.clients <= 1 }

\* The state at the start of main, for a configuration of cfgs.
InitState(cfgs) ==
    /\ config \in cfgs
    /\ pc = "do_warmup"
    /\ li = 0
    /\ control = [p \in Phases |-> "none"]
    /\ metrics = ZeroMetrics
    /\ warm = 0
    /\ hit = 0
    /\ miss = 0
    /\ worker = [p \in Phases |-> [i \in Slots |-> "idle"]]
    /\ ratelimiters = [p \in Phases |-> NoLimiters]
    /\ wired = [p \in Phases |-> [i \in Slots |-> NoLimiters]]
    /\ now = 0
    /\ next = 0
    /\ hist = <<>>
    /\ attempted = [p \in Phases |-> <<>>]
    /\ spawnErrs = [p \in Phases |-> 0]
    /\ lateRuns = [p \in Phases |-> [i \in Slots |-> 0]]
    /\ launches = <<>>
    /\ zeroes = 0
    /\ recorded = ZeroMetrics
    /\ reports = <<>>
    /\ crossings = 0
    /\ saved = 0

Init == InitState(Configs)

FairInit == InitState(FairConfigs)

\* A window counted twice.
IncrementWindow_Twice(m) == [m EXCEPT !.Window = @ + 2]

\* lines 127, 165: metrics.increment(&Stat::Window)
IncrementWindow(m) == [m EXCEPT !.Window = @ + 1]

\* The process lives until main returns; its threads die with it.
Alive == pc # "done"

\* ------------------------------------------------------ launch_clients
\* line 205: for i in 0..config.config.clients()
LaunchMore(i, clients) == i < clients

\* A launch that gives up at the first failed spawn.
LaunchContinue_Abort(i, ok, clients) == IF ok THEN i + 1 ELSE clients

\* lines 244-251: the Result of spawn is dropped (let _ =), so the loop goes on
\* to the next index whether or not the thread started.
LaunchContinue(i, ok, clients) == i + 1

LaunchPc(p) == IF p = "warmup" THEN "w_launch" ELSE "m_launch"
LaunchedPc(p) == IF p = "warmup" THEN "w_sleep" ELSE "m_loop"

\* lines 206-208, 228-235: client i gets clones of the three limiters of the
\* ClientConfig, each in its own place.
ClientLimiters(l) ==
    [request |-> l.request, connect |-> l.connect, close |-> l.close]

\* lines 205-252: one iteration of the loop: build client i, spawn its thread.
LaunchSpawn(p) ==
    /\ pc = LaunchPc(p)
    /\ LaunchMore(li, config.clients)
    /\ \E ok \in BOOLEAN :
         /\ worker' = [worker EXCEPT ![p][li] = IF ok THEN "load" ELSE "failed"]
         /\ spawnErrs' = [spawnErrs EXCEPT ![p] = @ + (IF ok THEN 0 ELSE 1)]
         /\ li' = LaunchContinue(li, ok, config.clients)
         /\ wired' = [wired EXCEPT ![p][li] = IF ok THEN ClientLimiters(ratelimiters[p]) ELSE @]
    /\ attempted' = [attempted EXCEPT ![p] = Append(@, li)]
    /\ UNCHANGED <<config, ratelimiters, pc, control, metrics, lateRuns, launches, zeroes, recorded>>
    /\ UNCHANGED <<warmVars, loopVars>>

\* line 253: the loop is over, launch_clients returns to its caller
\* (line 162 of do_warmup, line 113 of main).
LaunchReturn(p) ==
    /\ pc = LaunchPc(p)
    /\ ~LaunchMore(li, config.clients)
    /\ pc' = LaunchedPc(p)
    /\ UNCHANGED <<config, ratelimiters, wired, recorded, control, metrics, worker, lateRuns, zeroes>>
    /\ UNCHANGED <<warmVars, loopVars, launchVars>>

\* --------------------------------------------------------- worker thread
\* A worker loop that never looks at the flag.
WorkerContinues_Always(flag) == TRUE

\* line 248: while control.load(Ordering::SeqCst)
WorkerContinues(flag) == flag = "run"

Min(a, b) == IF a < b THEN a ELSE b

\* line 248: the thread loads the flag of its phase.
WorkerLoad(p, i) ==
    /\ Alive
    /\ worker[p][i] = "load"
    /\ worker' = [worker EXCEPT ![p][i] =
                    IF WorkerContinues(control[p]) THEN "loaded" ELSE "exit"]
    /\ UNCHANGED <<config, ratelimiters, wired, recorded, pc, control, metrics, lateRuns, zeroes>>
    /\ UNCHANGED <<warmVars, loopVars, launchVars>>

\* line 249: the call of client.run begins.
WorkerBegin(p, i) ==
    /\ Alive
    /\ worker[p][i] = "loaded"
    /\ worker' = [worker EXCEPT ![p][i] = "run"]
    /\ lateRuns' = [lateRuns EXCEPT ![p][i] =
                      IF control[p] = "stop" THEN Min(@ + 1, 2) ELSE @]
    /\ UNCHANGED <<config, ratelimiters, wired, recorded, pc, control, metrics, zeroes>>
    /\ UNCHANGED <<warmVars, loopVars, launchVars>>

\* What one interaction records into Metrics (the codec's classification).
Record(m, outcome) ==
    IF outcome = "hit" THEN [m EXCEPT !.ResponsesHit = @ + 1]
    ELSE IF outcome = "miss" THEN [m EXCEPT !.ResponsesMiss = @ + 1]
    ELSE m

\* line 249: client.run returns, having recorded a hit, a miss or nothing.
WorkerEnd(p, i) ==
    /\ Alive
    /\ worker[p][i] = "run"
    /\ \E outcome \in {"hit", "miss", "none"} :
         /\ outcome # "none" =>
                metrics.ResponsesHit + metrics.ResponsesMiss < MaxCount
         /\ metrics' = Record(metrics, outcome)
         /\ recorded' = Record(recorded, outcome)
    /\ worker' = [worker EXCEPT ![p][i] = "load"]
    /\ UNCHANGED <<config, ratelimiters, wired, pc, control, lateRuns, zeroes>>
    /\ UNCHANGED <<warmVars, loopVars, launchVars>>

\* ------------------------------------------------------------ do_warmup
\* A warmup that runs whether or not a target is configured.
WarmupConfigured_Always(target) == TRUE

\* line 146: if let Some(target) = config.warmup_hitrate()
WarmupConfigured(target) == target # None

\* Warmup limiters built from the configuration like those of the steady state.
WarmupLimiters_Throttled(c) ==
    [k \in Kinds |-> IF ConfigLimit(c[k]) # None
                        THEN <<c.clients, 1, ConfigLimit(c[k])>> ELSE NoLimiter]

\* lines 155-157: request_ratelimiter: None, connect_ratelimiter: None,
\* close_rate: None
WarmupLimiters(c) == NoLimiters

\* lines 146-160: enter do_warmup; with a target, create the private flag and
\* call launch_clients with it; without one, return at once.
WarmupEnter ==
    /\ pc = "do_warmup"
    /\ IF WarmupConfigured(WarmupHitrate(config.target))
         THEN /\ control' = [control EXCEPT !["warmup"] = "run"]
              /\ ratelimiters' = [ratelimiters EXCEPT !["warmup"] = WarmupLimiters(config)]
              /\ pc' = "w_launch"
              /\ launches' = Append(launches, "warmup")
         ELSE /\ pc' = "m_setup"
              /\ UNCHANGED <<control, launches, ratelimiters>>
    /\ li' = 0
    /\ UNCHANGED <<config, wired, recorded, metrics, worker, lateRuns, zeroes, attempted, spawnErrs>>
    /\ UNCHANGED <<warmVars, loopVars>>

\* line 169: hit / (hit + miss) on f64, kept as the pair <<dividend, divisor>>.
\* Both are counts, so the quotient is a number in 0.0..=1.0 or, for 0.0 / 0.0,
\* NaN: the pair whose divisor is 0.
HitRate(h, m) == <<h, h + m>>

IsNaN(q) == q[2] = 0

\* A comparison that takes the hit-rate of no observations to be 0/0 >= any.
MeetsTarget_NaNMeets(q, target) == 2 * q[1] >= target * q[2]

\* line 172: hitrate >= target on f64 (target in halves).  Every comparison
\* with NaN is false.
MeetsTarget(q, target) == ~IsNaN(q) /\ 2 * q[1] >= target * q[2]

\* A counter that is not reset by an interval below target.
NextWarm_NoReset(w, met) == IF met THEN w + 1 ELSE w

\* lines 172-176
NextWarm(w, met) == IF met THEN w + 1 ELSE 0

\* line 178
Converged(w) == w >= WarmThreshold

\* lines 164-165: sleep one interval, then count the window.
PollSleep ==
    /\ pc = "w_sleep"
    /\ Len(hist) < MaxPolls
    /\ metrics' = IncrementWindow(metrics)
    /\ pc' = "w_readhit"
    /\ UNCHANGED <<config, ratelimiters, wired, recorded, control, worker, lateRuns, zeroes>>
    /\ UNCHANGED <<warmVars, loopVars, launchVars>>

\* line 167
PollReadHit ==
    /\ pc = "w_readhit"
    /\ hit' = metrics.ResponsesHit
    /\ pc' = "w_readmiss"
    /\ UNCHANGED <<config, ratelimiters, wired, recorded, control, metrics, worker, lateRuns, zeroes, warm, miss, hist>>
    /\ UNCHANGED <<loopVars, launchVars>>

\* lines 168-178: read the misses, compare the hit-rate, update warm, branch.
PollReadMiss ==
    /\ pc = "w_readmiss"
    /\ miss' = metrics.ResponsesMiss
    /\ LET met == MeetsTarget(HitRate(hit, miss'), WarmupHitrate(config.target))
       IN  /\ warm' = NextWarm(warm, met)
           /\ hist' = Append(hist, met)
    /\ pc' = IF Converged(warm') THEN "w_zero_conv" ELSE "w_zero"
    /\ UNCHANGED <<config, ratelimiters, wired, recorded, control, metrics, worker, lateRuns, zeroes, hit>>
    /\ UNCHANGED <<loopVars, launchVars>>

\* A zero that resets the window count and keeps the response counts.
Zero_KeepsResponses(m) == [m EXCEPT !.Window = 0]

\* metrics.zero(): every counter is reset.
Zero(m) == ZeroMetrics

\* line 184: the poll step did not converge: zero and poll again.  The
\* iteration ends here and its locals hit and miss go out of scope.
PollZero ==
    /\ pc = "w_zero"
    /\ metrics' = Zero(metrics)
    /\ zeroes' = zeroes + 1
    /\ recorded' = ZeroMetrics
    /\ pc' = "w_sleep"
    /\ hit' = 0
    /\ miss' = 0
    /\ UNCHANGED <<config, ratelimiters, wired, control, worker, lateRuns, warm, hist>>
    /\ UNCHANGED <<loopVars, launchVars>>

\* line 179: converged: zero the counters (the pool is still running).
ConvergeZero ==
    /\ pc = "w_zero_conv"
    /\ metrics' = Zero(metrics)
    /\ zeroes' = zeroes + 1
    /\ recorded' = ZeroMetrics
    /\ pc' = "w_store"
    /\ UNCHANGED <<config, ratelimiters, wired, control, worker, lateRuns>>
    /\ UNCHANGED <<warmVars, loopVars, launchVars>>

\* line 180: control.store(false, Ordering::SeqCst)
StoreStop(flag) == "stop"

\* lines 180-188: stop the warmup pool, leave the loop, return to main; the
\* locals of do_warmup go out of scope.
ConvergeStore ==
    /\ pc = "w_store"
    /\ control' = [control EXCEPT !["warmup"] = StoreStop(@)]
    /\ pc' = "m_setup"
    /\ warm' = 0
    /\ hit' = 0
    /\ miss' = 0
    /\ UNCHANGED <<config, ratelimiters, wired, recorded, metrics, worker, lateRuns, zeroes, hist>>
    /\ UNCHANGED <<loopVars, launchVars>>

\* ------------------------------------------------------------------ main
\* One flag for both phases, set back to run for the steady state.
NewControl_Shared(c) == [p \in Phases |-> "run"]

\* line 70: a new AtomicBool, true, for the steady-state phase.
NewControl(c) == [c EXCEPT !["steady"] = "run"]

\* A limiter built with capacity and rate exchanged.
BuildLimiter_Swapped(limit, clients) ==
    IF limit # None THEN <<limit, 1, clients>> ELSE NoLimiter

\* lines 72-98: if let Some(limit) = ... { Some(Arc::new(Ratelimiter::new(
\* config.clients() as u64, 1, limit as u64))) } else { None }
BuildLimiter(limit, clients) ==
    IF limit # None THEN <<clients, 1, limit>> ELSE NoLimiter

\* lines 72-107: the three limiters of the steady-state ClientConfig.
SteadyLimiters(c) ==
    [request |-> BuildLimiter(ConfigLimit(c.request), c.clients),
     connect |-> BuildLimiter(ConfigLimit(c.connect), c.clients),
     close   |-> BuildLimiter(ConfigLimit(c.close), c.clients)]

\* lines 70-109: create the shared flag, build the steady-state ClientConfig,
\* set next one interval ahead; line 111 then calls launch_clients.
MainSetup ==
    /\ pc = "m_setup"
    /\ control' = NewControl(control)
    /\ ratelimiters' = [ratelimiters EXCEPT !["steady"] = SteadyLimiters(config)]
    /\ next' = now + config.interval
    /\ launches' = Append(launches, "steady")
    /\ li' = 0
    /\ pc' = "m_launch"
    /\ UNCHANGED <<config, wired, recorded, metrics, worker, lateRuns, zeroes, attempted, spawnErrs>>
    /\ UNCHANGED <<warmVars, now, reports, crossings, saved>>

\* lines 123-125: the boundary is ahead: sleep, which takes some time.
MainSleep ==
    /\ pc = "m_loop"
    /\ next > now
    /\ \E d \in 1 .. MaxSleep :
         /\ now + d <= MaxTime
         /\ now' = now + d
    /\ UNCHANGED <<config, ratelimiters, wired, recorded, pc, control, metrics, worker, lateRuns, zeroes>>
    /\ UNCHANGED <<warmVars, launchVars, next, reports, crossings, saved>>

\* An off-by-one window limit.
WindowLimitReached_Past(windows, window) == windows # None /\ window > windows

\* An unset window limit taken as 0 (unwrap_or(0)).
WindowLimitReached_Default(windows, window) ==
    window >= (IF windows = None THEN 0 ELSE windows)

\* A window limit that stops one window early.
WindowLimitReached_Early(windows, window) ==
    windows # None /\ window + 1 >= windows

\* lines 130-131: a limit is configured and the Window stat has reached it.
WindowLimitReached(windows, window) == windows # None /\ window >= windows

\* A boundary reset relative to the current time.
AdvanceBoundary_FromNow(nxt, nw, interval) == nw + interval

\* line 137: next += Duration::new(config.interval() as u64, 0).
AdvanceBoundary(nxt, nw, interval) == nxt + interval

\* A report made after the window check, which the break skips.
Report_AfterCheck(r, window, reached) == IF reached THEN r ELSE Append(r, window)

\* line 128: stats_stdout.print(), after the increment of line 127 and before
\* the window check of lines 130-135, whatever that check finds.
Report(r, window, reached) == Append(r, window)

\* lines 126-138: the boundary is crossed: count the window, report, and either
\* stop and leave the loop or move the boundary one interval on.
MainCross ==
    /\ pc = "m_loop"
    /\ ~(next > now)
    /\ metrics' = IncrementWindow(metrics)
    /\ reports' = Report(reports, metrics'.Window,
                          WindowLimitReached(ConfigWindows(config.windows),
                                             metrics'.Window))
    /\ crossings' = crossings + 1
    /\ IF WindowLimitReached(ConfigWindows(config.windows), metrics'.Window)
         THEN /\ control' = [control EXCEPT !["steady"] = StoreStop(@)]
              /\ pc' = "m_exit"
              /\ next' = next
         ELSE /\ next' = AdvanceBoundary(next, now, config.interval)
              /\ UNCHANGED <<control, pc>>
    /\ UNCHANGED <<config, ratelimiters, wired, recorded, worker, lateRuns, zeroes, now, saved>>
    /\ UNCHANGED <<warmVars, launchVars>>

\* A waterfall saved whether or not a path is configured.
WaterfallSaved_Always(waterfall) == 1

\* lines 140-142: if let Some(waterfall) = config.waterfall()
\* { metrics.save_waterfall(waterfall); }: the number of saves made.
WaterfallSaved(waterfall) == IF waterfall THEN 1 ELSE 0

\* lines 140-143: save the waterfall if a path is configured; main returns.
MainWaterfall ==
    /\ pc = "m_exit"
    /\ saved' = saved + WaterfallSaved(config.waterfall)
    /\ pc' = "done"
    /\ UNCHANGED <<config, ratelimiters, wired, recorded, control, metrics, worker, lateRuns, zeroes>>
    /\ UNCHANGED <<warmVars, launchVars, now, next, reports, crossings>>

\* ------------------------------------------------------- specification
Next ==
    \/ WarmupEnter
    \/ \E p \in Phases : LaunchSpawn(p)
    \/ \E p \in Phases : LaunchReturn(p)
    \/ \E p \in Phases, i \in Slots : WorkerLoad(p, i)
    \/ \E p \in Phases, i \in Slots : WorkerBegin(p, i)
    \/ \E p \in Phases, i \in Slots : WorkerEnd(p, i)
    \/ PollSleep
    \/ PollReadHit
    \/ PollReadMiss
    \/ PollZero
    \/ ConvergeZero
    \/ ConvergeStore
    \/ MainSetup
    \/ MainSleep
    \/ MainCross
    \/ MainWaterfall

Spec == Init /\ [][Next]_vars

\* The steps of the main thread.
MainThread ==
    \/ WarmupEnter
    \/ \E p \in Phases : LaunchSpawn(p)
    \/ \E p \in Phases : LaunchReturn(p)
    \/ PollSleep
    \/ PollReadHit
    \/ PollReadMiss
    \/ PollZero
    \/ ConvergeZero
    \/ ConvergeStore
    \/ MainSetup
    \/ MainSleep
    \/ MainCross
    \/ MainWaterfall

\* Every thread of a live process is scheduled again and again, the load of
\* the flag and the call of client.run are taken when due, and every
\* client.run returns.
Fairness ==
    /\ WF_vars(MainThread)
    /\ \A p \in Phases, i \in Slots :
          /\ WF_vars(WorkerLoad(p, i))
          /\ WF_vars(WorkerBegin(p, i))
          /\ WF_vars(WorkerEnd(p, i))

FairSpec == FairInit /\ [][Next]_vars /\ Fairness

\* ---------------------------------------------------------- properties
WarmupPolling == pc \in {"w_sleep", "w_readhit", "w_readmiss", "w_zero"}
WarmupConverged == pc \in {"w_zero_conv", "w_store"}
AfterWarmup == pc \in {"m_setup", "m_launch", "m_loop", "m_exit", "done"}
LoopExited == pc \in {"m_exit", "done"}
HasTarget == config.target # None

RECURSIVE Streak(_)
\* The number of consecutive TRUE entries at the end of h.
Streak(h) ==
    IF h = <<>> \/ ~h[Len(h)] THEN 0 ELSE 1 + Streak(SubSeq(h, 1, Len(h) - 1))

\* Three consecutive intervals ending at interval k met the target.
ThreeMetAt(h, k) == k >= 3 /\ k <= Len(h) /\ h[k - 2] /\ h[k - 1] /\ h[k]

\* C1: do_warmup leaves its poll loop if and only if three consecutive poll
\* intervals reported hitrate >= target: while it polls, warm is the length of
\* the current run of intervals that met the target (any interval below target,
\* the first included, puts it back to 0) and is below 3; once it has left the
\* loop, the last three intervals met the target and no earlier three did.
C1_ConvergesIffThreeConsecutive ==
    HasTarget =>
        /\ WarmupPolling =>
              /\ warm = Streak(hist)
              /\ warm < WarmThreshold
              /\ \A k \in 1 .. Len(hist) : ~ThreeMetAt(hist, k)
        /\ (WarmupConverged \/ AfterWarmup) =>
              /\ ThreeMetAt(hist, Len(hist))
              /\ \A k \in 1 .. (Len(hist) - 1) : ~ThreeMetAt(hist, k)

C1_Witness ==
    /\ pc = "m_setup"
    /\ hist = <<FALSE, TRUE, TRUE, TRUE>>

\* C2: a poll step that read ResponsesHit = 0 and ResponsesMiss = 0 did not
\* meet the target, for every target (0.0 included): warm is 0 after it and the
\* step goes on to the zero of a non-converged poll.
C2_NoObservationsNeverMeet ==
    (pc \in {"w_zero", "w_zero_conv"} /\ hit = 0 /\ miss = 0) =>
        /\ warm = 0
        /\ ~hist[Len(hist)]
        /\ pc = "w_zero"

C2_Witness ==
    /\ pc = "w_zero"
    /\ hit = 0 /\ miss = 0
    /\ config.target = 0
    /\ hist = <<TRUE, FALSE>>

\* C3: with a window limit configured, the measurement loop is still running
\* exactly while Window is below the limit, and it has exited exactly when
\* Window equals the limit, with or without a warmup before it.
C3_ExitsExactlyAtMaxWindow ==
    LET max == ConfigWindows(config.windows) IN
    max # None =>
        /\ pc = "m_loop" => metrics.Window < max /\ control["steady"] = "run"
        /\ LoopExited => metrics.Window = max /\ crossings = max

C3_Witness ==
    /\ pc = "done"
    /\ HasTarget
    /\ metrics.Window = ConfigWindows(config.windows)

\* C4 as stated: no call of client.run begins after the flag of its phase was
\* set to stop.
C4_NoRunBeginsAfterStop ==
    \A p \in Phases, i \in Slots : lateRuns[p][i] = 0

\* C4 amended: after the flag of its phase was set to stop a worker begins at
\* most one more call of client.run, the one whose flag check came before the
\* store: a worker that is about to call client.run under a stopped flag has
\* begun no call since the store.
C4_AtMostOneRunAfterStop ==
    \A p \in Phases, i \in Slots :
        /\ lateRuns[p][i] <= 1
        /\ (worker[p][i] = "loaded" /\ control[p] = "stop") => lateRuns[p][i] = 0

C4_Witness ==
    \E p \in Phases, i \in Slots :
        /\ lateRuns[p][i] = 1
        /\ worker[p][i] = "exit"

\* C5: with the window limit 0 or unset the measurement loop never exits, the
\* shared flag is never set to stop and the waterfall is never saved.
C5_NoLimitRunsForever ==
    ConfigWindows(config.windows) = None =>
        /\ ~LoopExited
        /\ control["steady"] # "stop"
        /\ saved = 0

C5_Witness ==
    /\ config.windows = 0
    /\ config.waterfall
    /\ crossings >= 3

\* C6 as stated: after a converged warmup every Metrics counter reads zero when
\* the steady-state pool is launched.
C6_CountersZeroAtSteadyLaunch ==
    (HasTarget /\ pc = "m_launch" /\ li = 0)
        => metrics = ZeroMetrics

\* C7 as stated: when the steady-state pool is launched no warmup worker is
\* still executing or starting an interaction.
C7_WarmupPoolGoneAtSteadyLaunch ==
    (pc = "m_launch" /\ li = 0) =>
        \A i \in Slots : worker["warmup"][i] \notin Running

\* C8: with no warmup target, do_warmup launches no pool, counts no window and
\* zeroes nothing: every Window increment is a crossing of the measurement loop
\* and the steady-state launch is the first and only call of launch_clients.
C8_NoTargetNoWarmup ==
    ~HasTarget =>
        /\ launches = IF AfterWarmup /\ pc # "m_setup" THEN <<"steady">> ELSE <<>>
        /\ attempted["warmup"] = <<>>
        /\ \A i \in Slots : worker["warmup"][i] = "idle"
        /\ control["warmup"] = "none"
        /\ metrics.Window = crossings
        /\ zeroes = 0
        /\ hist = <<>>

C8_Witness ==
    /\ config.target = None
    /\ pc = "m_loop"
    /\ crossings >= 1
    /\ launches = <<"steady">>

LaunchReturned(p) ==
    IF p = "warmup" THEN WarmupPolling \/ WarmupConverged \/ AfterWarmup
                    ELSE pc \in {"m_loop", "m_exit", "done"}

JustReturned(p) ==
    IF p = "warmup" THEN pc = "w_sleep" /\ hist = <<>>
                    ELSE pc = "m_loop" /\ crossings = 0 /\ now = 0

Started(p) == {i \in Slots : worker[p][i] \notin {"idle", "failed"}}

\* C9: a launch_clients call with clients = K passes the indices 0 .. K-1 to
\* spawn, in order and each once, whatever spawns fail; once it has returned,
\* K minus the number of failed spawns workers were started, and at the moment
\* it returns these are all running.
C9_LaunchStartsEachIndexOnce ==
    \A p \in Phases :
        /\ pc = LaunchPc(p) =>
              attempted[p] = [k \in 1 .. li |-> k - 1]
        /\ (LaunchReturned(p) /\ control[p] # "none") =>
              /\ attempted[p] = [k \in 1 .. config.clients |-> k - 1]
              /\ Cardinality(Started(p)) = config.clients - spawnErrs[p]
              /\ \A i \in Slots : i >= config.clients => worker[p][i] = "idle"
        /\ (JustReturned(p) /\ control[p] # "none") =>
              \A i \in Started(p) : worker[p][i] \in Running

C9_Witness ==
    /\ JustReturned("steady")
    /\ config.clients = 2
    /\ worker["steady"][0] = "failed"
    /\ worker["steady"][1] \in Running

\* C10: a stop flag that reads stop reads stop in every later state, for the
\* flag of the warmup and for the flag of the steady state.
C10_StopIsNeverReset ==
    [][\A p \in Phases : control[p] = "stop" => control'[p] = "stop"]_vars

C10_Witness ==
    /\ control["warmup"] = "stop"
    /\ control["steady"] = "stop"

\* The limiter a configured limit calls for.
Expected(raw) ==
    IF raw = None \/ raw = 0 THEN NoLimiter ELSE <<config.clients, 1, raw>>

SteadyBuilt == pc \in {"m_launch", "m_loop", "m_exit", "done"}

\* C11: in the steady state each of the three limiters is there exactly when
\* its own limit is configured (not 0, not unset), with capacity = clients,
\* quantum = 1 and rate = that limit, and every steady-state worker is given
\* exactly these three.
C11_LimitersAsConfigured ==
    SteadyBuilt =>
        /\ \A k \in Kinds : ratelimiters["steady"][k] = Expected(config[k])
        /\ \A i \in Started("steady"), k \in Kinds :
              wired["steady"][i][k] = Expected(config[k])

C11_Witness ==
    /\ pc = "m_loop"
    /\ config.clients = 1
    /\ config.request = 2 /\ config.connect = 0 /\ config.close = 1
    /\ worker["steady"][0] \in Running
    /\ wired["steady"][0] =
          [request |-> <<1, 1, 2>>, connect |-> NoLimiter, close |-> <<1, 1, 1>>]

\* C12: whatever limits are configured, the ClientConfig of the warmup and
\* every warmup worker hold no connect, request or close limiter, also once the
\* limiters of the steady state exist.
C12_WarmupUnthrottled ==
    /\ ratelimiters["warmup"] = NoLimiters
    /\ \A i \in Slots : wired["warmup"][i] = NoLimiters

C12_Witness ==
    /\ pc = "m_loop"
    /\ \A k \in Kinds : config[k] = 1
    /\ worker["warmup"][0] \in Running
    /\ ratelimiters["steady"] = [k \in Kinds |-> <<1, 1, 1>>]

\* C13: every boundary crossing of the measurement loop adds exactly one to
\* Window, nothing else changes Window in the steady state, and Window goes
\* down only in a metrics.zero() of the warmup, which puts it to 0.
C13_WindowCountsCrossings ==
    [][ /\ crossings' # crossings =>
              /\ crossings' = crossings + 1
              /\ metrics'.Window = metrics.Window + 1
        /\ (AfterWarmup /\ crossings' = crossings) =>
              metrics'.Window = metrics.Window
        /\ metrics'.Window < metrics.Window =>
              /\ pc \in {"w_zero", "w_zero_conv"}
              /\ metrics'.Window = 0 ]_vars

C13_Witness ==
    /\ pc = "m_exit"
    /\ Len(hist) = 4
    /\ zeroes = 4
    /\ crossings = 1
    /\ metrics.Window = 1

\* C14: the steady-state flag does not exist before line 70, reads run from
\* there until the measurement loop leaves, whatever happened to the flag of
\* the warmup, and reads stop only once the loop has left at a crossing with a
\* window limit configured and reached.
C14_SteadyFlagStoppedOnlyAtLimit ==
    /\ pc \in {"m_launch", "m_loop"} => control["steady"] = "run"
    /\ (pc = "do_warmup" \/ pc = "w_launch" \/ WarmupPolling \/ WarmupConverged
          \/ pc = "m_setup") => control["steady"] = "none"
    /\ control["steady"] = "stop" =>
          /\ LoopExited
          /\ ConfigWindows(config.windows) # None
          /\ metrics.Window >= ConfigWindows(config.windows)
          /\ crossings >= 1

C14_Witness ==
    /\ control["warmup"] = "stop"
    /\ control["steady"] = "run"
    /\ pc = "m_loop"
    /\ crossings = 0

\* C15 as stated: once the flag of a phase reads stop, every worker of the
\* phase eventually is out of its loop.  Nothing happens after main has
\* returned, so by then every worker of a stopped phase has to be out.
C15_WorkersOutWhenMainReturns ==
    pc = "done" =>
        \A p \in Phases, i \in Slots :
            control[p] = "stop" => worker[p][i] \notin Running

\* C15 amended: once the flag of a phase reads stop, every worker of the phase
\* eventually is out of its loop or main has returned and ended the process
\* with the worker still in it; and the store of a flag leaves a call of
\* client.run that is under way under way.
C15_WorkersExitOrProcessEnds ==
    /\ \A p \in Phases, i \in Slots :
          (control[p] = "stop") ~> (worker[p][i] \notin Running \/ pc = "done")
    /\ [][\A p \in Phases, i \in Slots :
            (worker[p][i] = "run" /\ control'[p] # control[p])
                => worker'[p][i] = "run"]_vars

C15_Witness ==
    /\ config.windows = None
    /\ pc = "m_loop"
    /\ crossings >= 1
    /\ control["warmup"] = "stop"
    /\ worker["warmup"][0] = "exit"
    /\ lateRuns["warmup"][0] = 1

\* C16: during the warmup the response counters hold exactly the responses
\* recorded since the last metrics.zero() call (since the launch, for the first
\* poll step), so the hit and miss a poll step has read count only responses
\* recorded after the zero that ended the poll step before it.
C16_HitRateOfThisIntervalOnly ==
    (pc = "w_launch" \/ WarmupPolling \/ WarmupConverged) =>
        /\ metrics.ResponsesHit = recorded.ResponsesHit
        /\ metrics.ResponsesMiss = recorded.ResponsesMiss
        /\ pc \in {"w_readmiss", "w_zero", "w_zero_conv"} =>
              hit <= recorded.ResponsesHit
        /\ pc \in {"w_zero", "w_zero_conv"} =>
              miss <= recorded.ResponsesMiss

C16_Witness ==
    /\ pc = "w_zero"
    /\ zeroes = 2
    /\ hit = 1
    /\ miss = 1
    /\ recorded.ResponsesHit = 1
    /\ recorded.ResponsesMiss = 1

\* C17: next starts one interval after the time it is set at (line 109) and
\* moves by exactly one interval per boundary crossed that does not end the
\* loop, whatever the current time is: after k such crossings it is the initial
\* value plus k intervals.  While the boundary is not ahead the loop does not
\* sleep: each of its steps increments Window and moves the boundary one
\* interval on, so a loop m intervals behind crosses m times in succession.
C17_BoundaryAccumulates ==
    /\ [](pc \in {"m_launch", "m_loop"} =>
            next = config.interval + crossings * config.interval)
    /\ [](LoopExited =>
            next = config.interval + (crossings - 1) * config.interval)
    /\ [][(pc = "m_loop" /\ ~(next > now)) =>
            /\ now' = now
            /\ (next' # next \/ pc' # pc) =>
                  metrics'.Window = metrics.Window + 1
            /\ pc' = pc => next' = next + config.interval]_<<pc, now, next>>

C17_Witness ==
    /\ pc = "m_loop"
    /\ config.interval = 1
    /\ now = 2
    /\ crossings = 2
    /\ next = 3

\* C18: the k-th boundary crossing increments Window to k and then reports it,
\* before the window check: the reports made are exactly one per crossing, the
\* k-th showing Window = k, and the crossing that ends the loop is reported too.
C18_ReportsOncePerWindow ==
    /\ reports = [k \in 1 .. crossings |-> k]
    /\ AfterWarmup => Len(reports) = metrics.Window
    /\ LoopExited =>
          /\ Len(reports) >= 1
          /\ reports[Len(reports)] = ConfigWindows(config.windows)

C18_Witness ==
    /\ LoopExited
    /\ crossings = 2
    /\ reports = <<1, 2>>

\* C19: the waterfall is saved at most once; a save has been made only when the
\* measurement loop has exited, the steady-state flag is stop and a waterfall
\* path is configured; before main has passed the loop's exit nothing is
\* saved, and once it has, the waterfall is saved exactly when a path is
\* configured.
C19_WaterfallSavedOnceOnExit ==
    /\ saved <= 1
    /\ saved = 1 =>
          /\ pc = "done"
          /\ control["steady"] = "stop"
          /\ config.waterfall
    /\ pc # "done" => saved = 0
    /\ pc = "done" => (saved = 1 <=> config.waterfall)

C19_Witness ==
    /\ pc = "done"
    /\ config.waterfall
    /\ saved = 1
    /\ control["steady"] = "stop"
====
